---- MODULE Spec2Model ----
(***************************************************************************)
(* AIInterviewerApp (src/app.py): the candidate list, the single           *)
(* "current candidate" slot, the interview_in_progress flag and the        *)
(* InterviewerAgent the application drives.  The InterviewerAgent, its      *)
(* question bank, the response evaluator and the assessment aggregator     *)
(* belong to the repository's `models` module (imported at app.py:13);     *)
(* they are modelled from the specification, sections 4.1 - 4.3 and 7.     *)
(*                                                                         *)
(* Conventions.  An optional value (Python's None) is a sequence of        *)
(* length at most one: <<>> is None, <<x>> is x.  A candidate id "C<n>"    *)
(* is carried as the number n; current_candidate is the id of the dict     *)
(* the attribute refers to (0 for None), since the code only ever reads    *)
(* current_candidate["id"].  A score is a rational [n, d] (value n / d),   *)
(* so that a mean is exact.  A Python exception raised inside a method is  *)
(* the method ending at that point with the assignments made so far kept.  *)
(***************************************************************************)
EXTENDS Integers, Sequences, FiniteSets, TLC

VARIABLES
    candidates,            \* self.candidates: the list of candidate dicts
    current_candidate,     \* self.current_candidate (id; 0 is None)
    interview_in_progress, \* self.interview_in_progress
    interviewer,           \* self.interviewer: the InterviewerAgent's session
    last,                  \* the last call made on the app and how it ended
    session_state          \* st.session_state of the dashboard

vars == <<candidates, current_candidate, interview_in_progress, interviewer, last,
          session_state>>

----------------------------------------------------------------------------
(* Bounds of the model *)

MaxCandidates == 2

\* The positions a candidate is added with (two of the five the form offers:
\* one that gets technical questions and one that does not).
Positions == {"Software Engineer", "Product Manager"}

\* What the evaluator may return for a response, in hundredths.
Scores == {50, 80}

\* What the evaluator does when asked: returns a score, or fails.
EvaluatorFails == <<>>
Evaluations == {<<s>> : s \in Scores} \cup {EvaluatorFails}

\* The response texts a caller submits: blank, or an answer.
Texts == {"", "answer"}

None == <<>>
Some(x) == <<x>>

----------------------------------------------------------------------------
(* Rationals *)

RECURSIVE GCD(_, _)
GCD(a, b) == IF b = 0 THEN a ELSE GCD(b, a % b)

\* n / d in lowest terms (n >= 0, d > 0)
Rat(n, d) == [n |-> n \div GCD(n, d), d |-> d \div GCD(n, d)]
RatLess(a, b) == a.n * b.d < b.n * a.d
RatEq(a, b) == a.n * b.d = b.n * a.d

----------------------------------------------------------------------------
(* Question bank (spec 4.1) *)

\* The bank the model runs with: one technical and one behavioral question, so
\* that a session has two questions (technical focus) or one.
TechnicalPool == <<[kind |-> "technical", n |-> 1]>>
BehavioralPool == <<[kind |-> "behavioral", n |-> 1]>>

select(technical_focus, behavioral_focus) ==
    (IF technical_focus THEN TechnicalPool ELSE <<>>)
        \o (IF behavioral_focus THEN BehavioralPool ELSE <<>>)

----------------------------------------------------------------------------
(* Interview session of the InterviewerAgent (spec 4.2) *)

NewAgent ==
    [status |-> "NotStarted", candidate_id |-> 0, questions |-> <<>>, queue |-> <<>>,
     technical_responses |-> <<>>, behavioral_responses |-> <<>>]

\* InterviewerAgent.start_interview: what it raises ("" when it returns), the
\* session afterwards and the question returned.
agent_start_interview(agent, candidate_id, technical_focus, behavioral_focus) ==
    LET selection == select(technical_focus, behavioral_focus) IN
    IF agent.status = "InProgress" /\ agent.candidate_id # candidate_id
    THEN [raised |-> "NoActiveCandidateError", agent |-> agent, question |-> None]
    ELSE IF selection = <<>>
    THEN [raised |-> "EmptySelectionError", agent |-> agent, question |-> None]
    ELSE [raised |-> "",
          agent |-> [status |-> "InProgress", candidate_id |-> candidate_id,
                     questions |-> selection, queue |-> selection,
                     technical_responses |-> <<>>, behavioral_responses |-> <<>>],
          question |-> Some(Head(selection))]

\* a response recorded without the question leaving the queue
record_response_no_pop(agent, score) ==
    LET question == Head(agent.queue)
        response == [question |-> question, score |-> score]
    IN [agent EXCEPT
            !.technical_responses =
                IF question.kind = "technical" THEN Append(@, response) ELSE @,
            !.behavioral_responses =
                IF question.kind = "behavioral" THEN Append(@, response) ELSE @]

\* The session after the current question (the head of the queue) was answered
\* with `score`.
record_response(agent, score) ==
    LET question == Head(agent.queue)
        response == [question |-> question, score |-> score]
        queue == Tail(agent.queue)
    IN [agent EXCEPT
            !.technical_responses =
                IF question.kind = "technical" THEN Append(@, response) ELSE @,
            !.behavioral_responses =
                IF question.kind = "behavioral" THEN Append(@, response) ELSE @,
            !.queue = queue,
            !.status = IF queue = <<>> THEN "Completed" ELSE "InProgress"]

\* InterviewerAgent.process_response.  `evaluation` is what the evaluator does
\* with this response if it is asked: <<score>> when it returns a score, <<>>
\* when it raises or returns malformed data.
agent_process_response(agent, response_text, evaluation) ==
    IF agent.status # "InProgress"
    THEN [raised |-> "NoSessionInProgressError", evaluated |-> FALSE, agent |-> agent,
          next_question |-> None, remaining_questions |-> 0]
    ELSE IF response_text = ""
    THEN [raised |-> "EmptyResponseError", evaluated |-> FALSE, agent |-> agent,
          next_question |-> None, remaining_questions |-> 0]
    ELSE IF evaluation = EvaluatorFails
    THEN [raised |-> "EvaluatorFailure", evaluated |-> TRUE, agent |-> agent,
          next_question |-> None, remaining_questions |-> 0]
    ELSE LET after == record_response(agent, evaluation[1]) IN
         [raised |-> "", evaluated |-> TRUE, agent |-> after,
          next_question |-> IF after.queue = <<>> THEN None ELSE Some(Head(after.queue)),
          remaining_questions |-> Len(after.queue)]

----------------------------------------------------------------------------
(* Assessment aggregator (spec 4.3) *)

RECURSIVE SumScores(_)
SumScores(responses) ==
    IF responses = <<>> THEN 0 ELSE Head(responses).score + SumScores(Tail(responses))

\* mean of the scores (hundredths), 0.0 when there are none
MeanScore(responses) ==
    IF responses = <<>> THEN Rat(0, 1) ELSE Rat(SumScores(responses), 100 * Len(responses))

\* the two means always averaged, also when one kind was not asked
overall_score_always_average(technical_responses, behavioral_responses) ==
    LET t == MeanScore(technical_responses)
        b == MeanScore(behavioral_responses)
    IN Rat(t.n * b.d + b.n * t.d, 2 * t.d * b.d)

overall_score(technical_responses, behavioral_responses) ==
    LET t == MeanScore(technical_responses)
        b == MeanScore(behavioral_responses)
    IN IF technical_responses # <<>> /\ behavioral_responses # <<>>
       THEN Rat(t.n * b.d + b.n * t.d, 2 * t.d * b.d)
       ELSE IF technical_responses # <<>> THEN t ELSE b

\* the buckets with their upper ends inclusive
recommendation_upper_inclusive(score) ==
    IF ~RatLess(Rat(1, 2), score) THEN "Not Recommended"
    ELSE IF ~RatLess(Rat(65, 100), score) THEN "Consider"
    ELSE IF ~RatLess(Rat(8, 10), score) THEN "Recommended"
    ELSE "Strongly Recommended"

recommendation(score) ==
    IF RatLess(score, Rat(1, 2)) THEN "Not Recommended"
    ELSE IF RatLess(score, Rat(65, 100)) THEN "Consider"
    ELSE IF RatLess(score, Rat(8, 10)) THEN "Recommended"
    ELSE "Strongly Recommended"

\* InterviewerAgent.get_candidate_assessment
get_candidate_assessment(agent) ==
    LET overall == overall_score(agent.technical_responses, agent.behavioral_responses) IN
    [assessment |->
        [overall_technical_score |-> MeanScore(agent.technical_responses),
         overall_behavioral_score |-> MeanScore(agent.behavioral_responses),
         overall_score |-> overall,
         recommendation |-> recommendation(overall)],
     technical_responses |-> agent.technical_responses,
     behavioral_responses |-> agent.behavioral_responses]

----------------------------------------------------------------------------
(* AIInterviewerApp (src/app.py) *)

\* What a call left behind for its caller: the method, its argument, how it
\* ended ("ok", the message of a (False, message) return, or the exception
\* raised), what the evaluator did if it was asked (None if it was not), the
\* question returned (the first
\* question of start_interview, the next_question of process_response), the
\* remaining_questions returned and the list get_candidate_rankings returned.
Call(op, arg, outcome) ==
    [op |-> op, arg |-> arg, outcome |-> outcome, evaluation |-> None,
     question |-> None, remaining |-> 0, ranking |-> <<>>]

\* the id numbered after the candidates still waiting for their interview
next_pending_id(cands) == Cardinality({i \in 1..Len(cands) : cands[i].status = "Pending"}) + 1

\* candidate_id = f"C{len(self.candidates) + 1}" (the number of the id)
next_candidate_id(cands) == Len(cands) + 1

new_candidate(cands, position) ==
    [id |-> next_candidate_id(cands), position |-> position, status |-> "Pending",
     assessment |-> None, interview_data |-> None]

\* a lookup that falls back on the first candidate when the id is not found
find_candidate_or_first(cands, candidate_id) ==
    LET found == {i \in 1..Len(cands) : cands[i].id = candidate_id} IN
    IF found = {} THEN (IF cands = <<>> THEN 0 ELSE 1)
    ELSE CHOOSE i \in found : \A j \in found : i <= j

\* next((c for c in self.candidates if c["id"] == candidate_id), None):
\* the index of the first candidate with that id, 0 when there is none
find_candidate(cands, candidate_id) ==
    LET found == {i \in 1..Len(cands) : cands[i].id = candidate_id} IN
    IF found = {} THEN 0 ELSE CHOOSE i \in found : \A j \in found : i <= j

\* the list of technical positions with the last one left out
technical_focus_two_positions(position) ==
    position \in {"Software Engineer", "Data Scientist"}

technical_focus(position) ==
    position \in {"Software Engineer", "Data Scientist", "DevOps Engineer"}

behavioral_focus == TRUE

\* the guard reading the current-candidate slot instead of the flag
current_candidate_set == current_candidate # 0

\* if not self.interview_in_progress
interview_flag_set == interview_in_progress

\* the interview taken as complete when at most one question remains
at_most_one_remaining(result) == result.remaining_questions <= 1

\* if result["next_question"] is None
no_next_question(result) == result.next_question = None

\* the assessment attached with the status left as it was
update_candidate_assessment_only(cands, current_id, result) ==
    LET found == {i \in 1..Len(cands) : cands[i].id = current_id} IN
    IF found = {} THEN cands
    ELSE [cands EXCEPT ![CHOOSE i \in found : \A j \in found : i <= j] =
            [@ EXCEPT !.assessment = Some(result.assessment)]]

\* _update_candidate_assessment: the first candidate whose id is the current
\* candidate's gets the status, the assessment and the interview data
update_candidate_assessment(cands, current_id, result) ==
    LET i == find_candidate(cands, current_id) IN
    IF i = 0 THEN cands
    ELSE [cands EXCEPT ![i] =
            [@ EXCEPT !.status = "Interviewed",
                      !.assessment = Some(result.assessment),
                      !.interview_data =
                          Some([technical_responses |-> result.technical_responses,
                                behavioral_responses |-> result.behavioral_responses])]]

\* [c for c in self.candidates if c.get("assessment")]
assessed_candidates(cands) == SelectSeq(cands, LAMBDA c : c.assessment # None)

sort_key(c) == c.assessment[1].overall_score

\* x put into a list already in order, behind every element whose key is not
\* smaller than its own
RECURSIVE insert_descending(_, _)
insert_descending(sorted, x) ==
    IF sorted = <<>> THEN <<x>>
    ELSE IF RatLess(sort_key(Head(sorted)), sort_key(x)) THEN <<x>> \o sorted
    ELSE <<Head(sorted)>> \o insert_descending(Tail(sorted), x)

RECURSIVE insert_ascending(_, _)
insert_ascending(sorted, x) ==
    IF sorted = <<>> THEN <<x>>
    ELSE IF RatLess(sort_key(x), sort_key(Head(sorted))) THEN <<x>> \o sorted
    ELSE <<Head(sorted)>> \o insert_ascending(Tail(sorted), x)

\* the elements of `todo` put one by one, in their order, into `done`
RECURSIVE insert_all_descending(_, _)
insert_all_descending(done, todo) ==
    IF todo = <<>> THEN done
    ELSE insert_all_descending(insert_descending(done, Head(todo)), Tail(todo))

RECURSIVE insert_all_ascending(_, _)
insert_all_ascending(done, todo) ==
    IF todo = <<>> THEN done
    ELSE insert_all_ascending(insert_ascending(done, Head(todo)), Tail(todo))

Reverse(s) == [i \in 1..Len(s) |-> s[Len(s) + 1 - i]]

\* a sort that forgets reverse=True
sorted_ascending(cands) == insert_all_ascending(<<>>, cands)

\* a descending order got by reversing the ascending one: equal scores swap
sorted_ascending_reversed(cands) == Reverse(insert_all_ascending(<<>>, cands))

\* sorted(assessed_candidates, key=overall_score, reverse=True): Python's sort
\* is stable, and with reverse=True elements of equal key keep their order
sorted_by_overall_score(cands) == insert_all_descending(<<>>, cands)

get_candidate_rankings(cands) ==
    LET assessed == assessed_candidates(cands) IN
    IF assessed = <<>> THEN <<>> ELSE sorted_by_overall_score(assessed)

----------------------------------------------------------------------------
(* Operations *)

\* st.session_state as the script's entry point initialises it
NewSessionState ==
    [interview_active |-> FALSE, current_question |-> None, interview_candidate_id |-> 0]

Init ==
    /\ candidates = <<>>
    /\ current_candidate = 0
    /\ interview_in_progress = FALSE
    /\ interviewer = NewAgent
    /\ last = Call("__init__", <<>>, "ok")
    /\ session_state = NewSessionState

add_candidate(position) ==
    /\ Len(candidates) < MaxCandidates
    /\ candidates' = Append(candidates, new_candidate(candidates, position))
    /\ last' = Call("add_candidate", <<position>>, "ok")
    /\ UNCHANGED <<current_candidate, interview_in_progress, interviewer>>

start_interview(candidate_id) ==
    LET i == find_candidate(candidates, candidate_id) IN
    IF i = 0
    THEN /\ last' = Call("start_interview", <<candidate_id>>, "Candidate not found")
         /\ UNCHANGED <<candidates, current_candidate, interview_in_progress, interviewer>>
    ELSE LET started == agent_start_interview(interviewer, candidate_id,
                            technical_focus(candidates[i].position), behavioral_focus)
         IN /\ current_candidate' = candidates[i].id
            /\ interview_in_progress' = TRUE
            /\ interviewer' = started.agent
            /\ last' = [Call("start_interview", <<candidate_id>>,
                             IF started.raised = "" THEN "ok" ELSE started.raised)
                        EXCEPT !.question = started.question]
            /\ UNCHANGED candidates

\* process_response with the flag cleared before the interviewer is called
process_response_flag_first(response_text, evaluation) ==
    IF ~interview_flag_set
    THEN /\ last' = Call("process_response", <<response_text>>, "No interview in progress")
         /\ UNCHANGED <<candidates, current_candidate, interview_in_progress, interviewer>>
    ELSE LET result == agent_process_response(interviewer, response_text, evaluation) IN
         /\ interviewer' = result.agent
         /\ interview_in_progress' = FALSE
         /\ last' = [Call("process_response", <<response_text>>,
                          IF result.raised = "" THEN "ok" ELSE result.raised)
                     EXCEPT !.evaluation = IF result.evaluated THEN Some(evaluation) ELSE None,
                            !.question = result.next_question,
                            !.remaining = result.remaining_questions]
         /\ candidates' =
                IF result.raised = "" /\ no_next_question(result)
                THEN update_candidate_assessment(candidates, current_candidate,
                                                 get_candidate_assessment(result.agent))
                ELSE candidates
         /\ UNCHANGED current_candidate

process_response(response_text, evaluation) ==
    IF ~interview_flag_set
    THEN /\ last' = Call("process_response", <<response_text>>, "No interview in progress")
         /\ UNCHANGED <<candidates, current_candidate, interview_in_progress, interviewer>>
    ELSE LET result == agent_process_response(interviewer, response_text, evaluation) IN
         /\ interviewer' = result.agent
         /\ last' = [Call("process_response", <<response_text>>,
                          IF result.raised = "" THEN "ok" ELSE result.raised)
                     EXCEPT !.evaluation = IF result.evaluated THEN Some(evaluation) ELSE None,
                            !.question = result.next_question,
                            !.remaining = result.remaining_questions]
         /\ IF result.raised = "" /\ no_next_question(result)
            THEN /\ interview_in_progress' = FALSE
                 /\ candidates' = update_candidate_assessment(candidates, current_candidate,
                                        get_candidate_assessment(result.agent))
            ELSE UNCHANGED <<interview_in_progress, candidates>>
         /\ UNCHANGED current_candidate

rank_candidates ==
    /\ last' = [Call("get_candidate_rankings", <<>>, "ok")
                EXCEPT !.ranking = get_candidate_rankings(candidates)]
    /\ UNCHANGED <<candidates, current_candidate, interview_in_progress, interviewer>>

\* The methods called on one AIInterviewerApp object, in any order; the
\* dashboard's session state plays no part.
Next ==
    \/ \E position \in Positions :
            add_candidate(position) /\ UNCHANGED session_state
    \/ \E candidate_id \in 1..(MaxCandidates + 1) :
            start_interview(candidate_id) /\ UNCHANGED session_state
    \/ \E response_text \in Texts, evaluation \in Evaluations :
            process_response(response_text, evaluation) /\ UNCHANGED session_state
    \/ rank_candidates /\ UNCHANGED session_state

Spec == Init /\ [][Next]_vars

----------------------------------------------------------------------------
(* The session and the aggregator driven with any focus flags (spec 2, 4.2,  *)
(* 4.3): a caller starts a session for one of two candidates with the flags  *)
(* of its choice and submits responses until no question remains; the        *)
(* evaluator may return any of AggregatorScores, the bucket boundaries among *)
(* them.                                                                     *)

AggregatorScores == {0, 50, 65, 80}
AggregatorEvaluations == {<<s>> : s \in AggregatorScores}

InitAggregator ==
    /\ candidates =
            LET first == new_candidate(<<>>, "Software Engineer") IN
            <<first, new_candidate(<<first>>, "Product Manager")>>
    /\ current_candidate = 0
    /\ interview_in_progress = FALSE
    /\ interviewer = NewAgent
    /\ last = Call("__init__", <<>>, "ok")
    /\ session_state = NewSessionState

\* start(candidate_id, technical_focus, behavioral_focus): start_interview with
\* the focus flags given by the caller
start_session(candidate_id, focus_technical, focus_behavioral) ==
    LET i == find_candidate(candidates, candidate_id)
        started == agent_start_interview(interviewer, candidate_id,
                                         focus_technical, focus_behavioral)
    IN /\ i # 0
       /\ current_candidate' = candidates[i].id
       /\ interview_in_progress' = TRUE
       /\ interviewer' = started.agent
       /\ last' = [Call("start", <<candidate_id, focus_technical, focus_behavioral>>,
                        IF started.raised = "" THEN "ok" ELSE started.raised)
                   EXCEPT !.question = started.question]
       /\ UNCHANGED candidates

NextAggregator ==
    \/ \E candidate_id \in 1..2, focus_technical \in BOOLEAN, focus_behavioral \in BOOLEAN :
            start_session(candidate_id, focus_technical, focus_behavioral)
                /\ UNCHANGED session_state
    \/ \E evaluation \in AggregatorEvaluations :
            process_response("answer", evaluation) /\ UNCHANGED session_state

SpecAggregator == InitAggregator /\ [][NextAggregator]_vars

----------------------------------------------------------------------------
(* The dashboard (run_streamlit_dashboard).  Streamlit runs the script from   *)
(* the top on every interaction and on st.experimental_rerun(); each run      *)
(* builds its own AIInterviewerApp (line 133), which loads the candidates the *)
(* runs before it saved, while st.session_state lives across runs.  A run     *)
(* makes at most one call on its app: the one of the button pressed (or the   *)
(* ranking of the Dashboard page); "the app of this run has not been called"  *)
(* is last.op = "__init__".  The "Start Interview Now" button sits inside the *)
(* form, behind `if submitted`, and is never pressed in a run that reaches    *)
(* it; with it goes the only way to an active interview without a question    *)
(* (line 221), so the reset of lines 289-291 never runs.                      *)

\* the app of this run has not been called yet
IsFreshApp == last.op = "__init__"

\* the options of the Position selectbox
FormPositions ==
    {"Software Engineer", "Data Scientist", "Product Manager", "DevOps Engineer", "Other"}

\* pending_candidates = [c for c in app.candidates if c["status"] == "Pending"]
pending_candidates(cands) == SelectSeq(cands, LAMBDA c : c.status = "Pending")

\* a run starts: app = AIInterviewerApp()
dashboard_run ==
    /\ current_candidate' = 0
    /\ interview_in_progress' = FALSE
    /\ interviewer' = NewAgent
    /\ last' = Call("__init__", <<>>, "ok")
    /\ UNCHANGED <<candidates, session_state>>

\* "Add Candidate" submitted with a name and an email
dashboard_add_candidate(position) ==
    /\ IsFreshApp
    /\ add_candidate(position)
    /\ UNCHANGED session_state

\* "Start Interview" pressed for the pending candidate selected
dashboard_start_interview(selected_id) ==
    /\ IsFreshApp
    /\ ~session_state.interview_active
    /\ \E k \in 1..Len(pending_candidates(candidates)) :
            pending_candidates(candidates)[k].id = selected_id
    /\ start_interview(selected_id)
    /\ session_state' =
            IF last'.outcome = "ok"
            THEN [interview_active |-> TRUE, current_question |-> last'.question,
                  interview_candidate_id |-> selected_id]
            ELSE session_state

\* "Submit Response" pressed with a non-empty answer
dashboard_submit_response(response, evaluation) ==
    /\ IsFreshApp
    /\ pending_candidates(candidates) # <<>>
    /\ session_state.interview_active
    /\ session_state.current_question # None
    /\ response # ""
    /\ process_response(response, evaluation)
    /\ session_state' =
            IF last'.outcome # "ok" THEN session_state
            ELSE IF last'.question # None
            THEN [session_state EXCEPT !.current_question = last'.question]
            ELSE [session_state EXCEPT !.interview_active = FALSE,
                                       !.current_question = None]

\* the Dashboard page: rankings = app.get_candidate_rankings()
dashboard_rankings ==
    /\ IsFreshApp
    /\ rank_candidates
    /\ UNCHANGED session_state

NextDashboard ==
    \/ dashboard_run
    \/ \E position \in FormPositions : dashboard_add_candidate(position)
    \/ \E selected_id \in 1..MaxCandidates : dashboard_start_interview(selected_id)
    \/ \E response \in Texts, evaluation \in Evaluations :
            dashboard_submit_response(response, evaluation)
    \/ dashboard_rankings

SpecDashboard == Init /\ [][NextDashboard]_vars

----------------------------------------------------------------------------
(* Properties *)

Responses(agent) == Len(agent.technical_responses) + Len(agent.behavioral_responses)

IsCall(call, op) == call.op = op

\* the app's state apart from the record of the last call
AppUnchanged == UNCHANGED <<candidates, current_candidate, interview_in_progress>>

\* C1: at every point of a session, the responses recorded plus the questions
\* still in the queue are as many as the questions selected at its start.
C1_ResponsesPlusRemaining ==
    Responses(interviewer) + Len(interviewer.queue) = Len(interviewer.questions)

\* a session in its middle (one answered, one to go) after a call that failed
C1_Witness ==
    /\ interviewer.status = "InProgress"
    /\ Responses(interviewer) >= 1
    /\ Len(interviewer.queue) >= 1
    /\ IsCall(last, "process_response")
    /\ last.outcome = "EvaluatorFailure"

\* C2: process_response with no interview in progress returns the
\* no-interview-in-progress failure, does not ask the evaluator and leaves the
\* flag, the current candidate and every candidate record as they were.
C2_NoInterviewRejected ==
    [][(IsCall(last', "process_response") /\ ~interview_in_progress)
        => (/\ last'.outcome = "No interview in progress"
            /\ last'.evaluation = None
            /\ AppUnchanged)]_vars

\* the failure returned after an interview has completed
C2_Witness ==
    /\ IsCall(last, "process_response")
    /\ last.outcome = "No interview in progress"
    /\ interviewer.status = "Completed"
    /\ \E i \in 1..Len(candidates) : candidates[i].status = "Interviewed"

\* C3: start_interview for a candidate B while an interview is in progress for
\* another candidate A fails with NoActiveCandidateError, the current candidate
\* stays A, A's session is not replaced and stays the one interview in flight.
C3_StartWhileInProgressRejected ==
    [][\A b \in 1..MaxCandidates :
        (/\ IsCall(last', "start_interview")
         /\ last'.arg = <<b>>
         /\ find_candidate(candidates, b) # 0
         /\ interview_in_progress
         /\ current_candidate # 0
         /\ current_candidate # b
         /\ interviewer.status = "InProgress"
         /\ interviewer.candidate_id = current_candidate)
        => (/\ last'.outcome = "NoActiveCandidateError"
            /\ current_candidate' = current_candidate
            /\ interview_in_progress'
            /\ interviewer' = interviewer)]_vars

\* C4: an empty response while an interview is in progress is rejected with
\* EmptyResponseError without the evaluator being asked, and the session stays
\* where it was: same question, same queue, same responses, still in progress
\* for the same candidate.
C4_EmptyResponseRejected ==
    [][(/\ IsCall(last', "process_response")
        /\ last'.arg = <<"">>
        /\ interview_in_progress)
        => (/\ last'.outcome = "EmptyResponseError"
            /\ last'.evaluation = None
            /\ interviewer' = interviewer
            /\ AppUnchanged)]_vars

\* an empty response rejected while a question is pending
C4_Witness ==
    /\ IsCall(last, "process_response")
    /\ last.arg = <<"">>
    /\ last.outcome = "EmptyResponseError"
    /\ interview_in_progress
    /\ interviewer.status = "InProgress"
    /\ Len(interviewer.queue) >= 1

\* C5: when a process_response leaves no next question, the same step ends the
\* interview and writes the assessment into the record of the candidate who
\* owns the session, who becomes Interviewed; no other record changes.
C5_CompletionWritesOwner ==
    [][(/\ IsCall(last', "process_response")
        /\ last'.outcome = "ok"
        /\ last'.question = None)
        => LET owner == find_candidate(candidates, interviewer.candidate_id) IN
           /\ ~interview_in_progress'
           /\ owner # 0
           /\ candidates'[owner].status = "Interviewed"
           /\ candidates'[owner].assessment
                = Some(get_candidate_assessment(interviewer').assessment)
           /\ \A i \in 1..Len(candidates) : i # owner => candidates'[i] = candidates[i]]_vars

\* C6: an assessment attached to a candidate is never changed by a later call.
C6_AssessmentImmutable ==
    [][\A i \in 1..Len(candidates) :
        candidates[i].assessment # None
            => candidates'[i].assessment = candidates[i].assessment]_vars

\* C7: once a candidate's session has completed (the candidate is Interviewed),
\* no call puts an interview for that candidate in progress again.
C7_CompletedStaysCompleted ==
    [][\A i \in 1..Len(candidates) :
        candidates[i].status = "Interviewed"
            => ~(/\ interview_in_progress'
                 /\ current_candidate' = candidates[i].id
                 /\ interviewer'.status = "InProgress"
                 /\ interviewer'.candidate_id = candidates[i].id)]_vars

\* C8: when the evaluator fails during process_response, the failure reaches the
\* caller and nothing has changed: the interview is still in progress for the
\* same candidate, the same question is pending, no response is recorded and no
\* candidate record is modified.
C8_EvaluatorFailureLeavesSession ==
    [][(IsCall(last', "process_response") /\ last'.evaluation = Some(EvaluatorFails))
        => (/\ last'.outcome = "EvaluatorFailure"
            /\ interview_in_progress'
            /\ interviewer'.status = "InProgress"
            /\ interviewer' = interviewer
            /\ AppUnchanged)]_vars

\* the evaluator failed on the first question of a session
C8_Witness ==
    /\ IsCall(last, "process_response")
    /\ last.evaluation = Some(EvaluatorFails)
    /\ last.outcome = "EvaluatorFailure"
    /\ interviewer.status = "InProgress"
    /\ interviewer.queue = interviewer.questions

Assessed(cands) == {i \in 1..Len(cands) : cands[i].assessment # None}

\* C9: the ranking holds exactly the candidates that have an assessment, each
\* once, with overall_score non-increasing from first to last.
C9_RankingAssessedSortedDescending ==
    IsCall(last, "get_candidate_rankings") =>
        LET ranking == last.ranking IN
        /\ \A k \in 1..Len(ranking) :
              \E i \in Assessed(candidates) : ranking[k] = candidates[i]
        /\ \A i \in Assessed(candidates) :
              Cardinality({k \in 1..Len(ranking) : ranking[k].id = candidates[i].id}) = 1
        /\ \A j, k \in 1..Len(ranking) :
              j < k => ~RatLess(sort_key(ranking[j]), sort_key(ranking[k]))

\* a ranking that had to put the second candidate before the first
C9_Witness ==
    /\ IsCall(last, "get_candidate_rankings")
    /\ Len(last.ranking) = 2
    /\ last.ranking[1] = candidates[2]
    /\ RatLess(sort_key(candidates[1]), sort_key(candidates[2]))

\* C10: candidates of equal overall_score are ranked in the order they have in
\* the candidate list.
C10_RankingStable ==
    IsCall(last, "get_candidate_rankings") =>
        LET ranking == last.ranking IN
        \A j, k \in 1..Len(ranking) :
            (j < k /\ RatEq(sort_key(ranking[j]), sort_key(ranking[k])))
                => find_candidate(candidates, ranking[j].id)
                     < find_candidate(candidates, ranking[k].id)

\* two candidates of equal score, ranked
C10_Witness ==
    /\ IsCall(last, "get_candidate_rankings")
    /\ Len(last.ranking) = 2
    /\ RatEq(sort_key(last.ranking[1]), sort_key(last.ranking[2]))
    /\ last.ranking[1].position # last.ranking[2].position

\* C11: a successful process_response answers exactly one question and takes
\* exactly one off the remaining count; the next question returned is none
\* exactly when the remaining count returned is 0; and the interview is complete
\* (for the session and for the application) exactly when all the selected
\* questions have been answered, so after N successful calls and not earlier.
C11_OneQuestionPerResponse ==
    [][(IsCall(last', "process_response") /\ last'.outcome = "ok")
        => (/\ Responses(interviewer') = Responses(interviewer) + 1
            /\ Len(interviewer'.queue) = Len(interviewer.queue) - 1
            /\ last'.remaining = Len(interviewer'.queue)
            /\ (last'.question = None) <=> (last'.remaining = 0)
            /\ (interviewer'.status = "Completed")
                  <=> (Responses(interviewer') = Len(interviewer'.questions))
            /\ interview_in_progress' <=> (interviewer'.status = "InProgress")
            /\ interviewer'.questions = interviewer.questions)]_vars

\* the second of two successful responses completed a two-question session
C11_Witness ==
    /\ IsCall(last, "process_response")
    /\ last.outcome = "ok"
    /\ Len(interviewer.questions) = 2
    /\ Responses(interviewer) = 2
    /\ interviewer.status = "Completed"
    /\ ~interview_in_progress

\* C12: no two candidate records share an id, and every id is greater than the
\* ids assigned before it (the records are in the order they were added).
C12_IdsUniqueIncreasing ==
    \A i, j \in 1..Len(candidates) :
        /\ (i # j => candidates[i].id # candidates[j].id)
        /\ (i < j => candidates[i].id < candidates[j].id)

\* a candidate added after another one's interview had completed
C12_Witness ==
    /\ IsCall(last, "add_candidate")
    /\ Len(candidates) = 2
    /\ candidates[1].status = "Interviewed"

\* C16: a candidate is Interviewed exactly when an assessment is attached and
\* Pending exactly when none is; a status only ever goes from Pending to
\* Interviewed, never back.
C16_StatusFollowsAssessment ==
    [][/\ \A i \in 1..Len(candidates') :
            /\ candidates'[i].status \in {"Pending", "Interviewed"}
            /\ (candidates'[i].status = "Interviewed") <=> (candidates'[i].assessment # None)
       /\ \A i \in 1..Len(candidates) :
            candidates[i].status = "Interviewed" => candidates'[i].status = "Interviewed"]_vars

\* one candidate interviewed and assessed, the other pending without assessment
C16_Witness ==
    /\ Len(candidates) = 2
    /\ candidates[1].status = "Pending" /\ candidates[1].assessment = None
    /\ candidates[2].status = "Interviewed" /\ candidates[2].assessment # None

\* C17: start_interview with an id no candidate has returns 'Candidate not
\* found' and changes nothing: flag, current candidate, the session in flight and
\* the candidate records stay as they were, and the interviewer is not started.
C17_UnknownCandidateChangesNothing ==
    [][\A b \in 1..(MaxCandidates + 1) :
        (/\ IsCall(last', "start_interview")
         /\ last'.arg = <<b>>
         /\ \A i \in 1..Len(candidates) : candidates[i].id # b)
        => (/\ last'.outcome = "Candidate not found"
            /\ last'.question = None
            /\ interviewer' = interviewer
            /\ AppUnchanged)]_vars

\* an unknown id refused while another candidate's interview is in flight
C17_Witness ==
    /\ IsCall(last, "start_interview")
    /\ last.outcome = "Candidate not found"
    /\ interview_in_progress
    /\ interviewer.status = "InProgress"
    /\ Responses(interviewer) >= 1

\* the scores of candidate i's assessment, in hundredths as fractions n / d
Technical(i) == candidates[i].assessment[1].overall_technical_score
Behavioral(i) == candidates[i].assessment[1].overall_behavioral_score
Overall(i) == candidates[i].assessment[1].overall_score
TechnicalAsked(i) == candidates[i].interview_data[1].technical_responses # <<>>
BehavioralAsked(i) == candidates[i].interview_data[1].behavioral_responses # <<>>

\* C13: the recommendation is the bucket of overall_score, lower end inclusive
\* and upper end exclusive: below 0.5 Not Recommended, from 0.5 to below 0.65
\* Consider, from 0.65 to below 0.8 Recommended, 0.8 and above Strongly
\* Recommended.
C13_RecommendationBuckets ==
    \A i \in Assessed(candidates) :
        LET hundredths_n == 100 * Overall(i).n
            d == Overall(i).d
            given == candidates[i].assessment[1].recommendation
        IN /\ (hundredths_n < 50 * d) <=> (given = "Not Recommended")
           /\ (50 * d <= hundredths_n /\ hundredths_n < 65 * d) <=> (given = "Consider")
           /\ (65 * d <= hundredths_n /\ hundredths_n < 80 * d) <=> (given = "Recommended")
           /\ (80 * d <= hundredths_n) <=> (given = "Strongly Recommended")

\* one assessment exactly on 0.65 and one exactly on 0.8
C13_Witness ==
    /\ Assessed(candidates) = {1, 2}
    /\ Overall(1) = Rat(65, 100) /\ candidates[1].assessment[1].recommendation = "Recommended"
    /\ Overall(2) = Rat(80, 100)
    /\ candidates[2].assessment[1].recommendation = "Strongly Recommended"

C15_ActiveInterviewKeptAcrossRuns ==
    /\ (session_state.interview_active /\ session_state.current_question # None)
          => (/\ interview_in_progress
              /\ current_candidate = session_state.interview_candidate_id)
    /\ ~(IsCall(last, "process_response") /\ last.outcome = "No interview in progress")

\* C18: every interview the application starts is started with behavioral_focus
\* true and technical_focus true exactly for the positions Software Engineer,
\* Data Scientist and DevOps Engineer (the questions selected are those of
\* these flags), and never ends in the empty-selection error.
C18_FocusFlags ==
    [][\A i \in 1..Len(candidates) :
        (IsCall(last', "start_interview") /\ last'.arg = <<candidates[i].id>>)
        => (/\ last'.outcome # "EmptySelectionError"
            /\ last'.outcome = "ok" =>
                 interviewer'.questions =
                    select(candidates[i].position
                              \in {"Software Engineer", "Data Scientist", "DevOps Engineer"},
                           TRUE))]_vars

\* an interview started for a DevOps Engineer, with both kinds of question
C18_Witness ==
    /\ IsCall(last, "start_interview")
    /\ last.outcome = "ok"
    /\ \E i \in 1..Len(candidates) :
          /\ candidates[i].id = current_candidate
          /\ candidates[i].position = "DevOps Engineer"
    /\ interviewer.questions = TechnicalPool \o BehavioralPool

====
